---- MODULE Spec2Model ----
(***************************************************************************)
(* Model of the face elements of                                           *)
(*   src/pml_fourier_decomposed_helmholtz/                                 *)
(*     pml_fourier_decomposed_helmholtz_flux_elements.h                    *)
(*                                                                         *)
(*   PMLFourierDecomposedHelmholtzFluxElement<ELEMENT>         (fluxEl)    *)
(*   PMLFourierDecomposedHelmholtzPowerMonitorElement<ELEMENT> (powerEl)   *)
(*                                                                         *)
(* Numbers are integers: every double of the source is an exact integer    *)
(* here, so the arithmetic of the loops is exact.  The value returned by   *)
(* global_power_contribution is kept as the coefficient of                 *)
(* MathematicalConstants::Pi.  A complex number is a record                *)
(* [real |-> .., imag |-> ..].  Vectors, Shape objects and the residual    *)
(* buffer are indexed from 0, as in the source.                            *)
(***************************************************************************)
EXTENDS Integers, Sequences, FiniteSets, TLC

VARIABLES
  mesh,       \* what the bulk element, the nodes and the integration scheme
              \* report to the face element (built before the face elements)
  fluxEl,     \* the PMLFourierDecomposedHelmholtzFluxElement, or NoElement
  powerEl,    \* the PMLFourierDecomposedHelmholtzPowerMonitorElement, or NoElement
  thrown,     \* exception that left the last operation ("none" if it returned)
  residuals,  \* the Vector<double>& residuals handed to the last call, after it
  jacobian,   \* the DenseMatrix<double>& jacobian handed to the last call, after it
  outfile,    \* the std::ofstream& handed to the last call, after it
  power,      \* value returned by the last call (in units of Pi)
  lastOp,     \* name of the last operation
  pre,        \* residuals, jacobian and outfile as the caller handed them to the last call
  ctor        \* the object under construction as it was when the last constructor ended

vars == <<mesh, fluxEl, powerEl, thrown, residuals, jacobian, outfile, power,
          lastOp, pre, ctor>>

----------------------------------------------------------------------------
(* Bounds of the model *)

\* largest number of nodes of a face element
MaxNode == 2

\* largest number of integration points of the face's integration scheme
MaxIntPt == 2

----------------------------------------------------------------------------
(* Values *)

Complex(re, im) == [real |-> re, imag |-> im]

NoElement == [bound |-> FALSE]

\* the bulk elements a face element can be attached to: two that inherit from
\* PMLFourierDecomposedHelmholtzEquations (with the index pair their
\* u_index_pml_fourier_decomposed_helmholtz() reports) and one that does not
HelmholtzBulk(re, im) == [helmholtz |-> TRUE, u_index |-> Complex(re, im)]

OtherBulk == [helmholtz |-> FALSE, u_index |-> Complex(0, 0)]

HelmholtzBulks == {HelmholtzBulk(0, 1), HelmholtzBulk(1, 0)}

BulkElements == HelmholtzBulks \cup {OtherBulk}

FaceIndices == {-1, 2}

\* straight faces with equally spaced nodes: node l sits at (r0 + l*dr, z0 + l*dz);
\* the outer unit normal is perpendicular to the face
AxialFace == [r0 |-> 1, z0 |-> 0, dr |-> 0, dz |-> 1, normal |-> <<1, 0>>]

RadialFace == [r0 |-> 2, z0 |-> 1, dr |-> 1, dz |-> 0, normal |-> <<0, -1>>]

Geometries == { AxialFace, RadialFace }

\* (weight of the integration point, Jacobian of the mapping at the point)
WeightAndJacobian == { <<1, 1>>, <<2, 3>>, <<1, 0>> }

RECURSIVE SeqsUpTo(_, _)
SeqsUpTo(S, n) ==
  IF n = 0 THEN { <<>> }
  ELSE LET shorter == SeqsUpTo(S, n - 1)
       IN  shorter \cup { Append(q, x) : q \in { p \in shorter : Len(p) = n - 1 }, x \in S }

IntegrationSchemes ==
  { [k \in DOMAIN q |-> [weight |-> q[k][1], J |-> q[k][2]]] :
      q \in SeqsUpTo(WeightAndJacobian, MaxIntPt) }

\* the two values stored at a node
Slots == {0, 1}

Dofs(n) == (0 .. n - 1) \X Slots

\* nodal values of the Helmholtz unknown
NodalValues == { Complex(1, 0), Complex(2, 0), Complex(1, 2) }

\* prescribed-flux functions a driver can hand to flux_fct_pt(); 0 is the null pointer
FluxFctPts == {0, 1, 2}

\* contents of the buffers a caller hands in
BufferFill == {0, 5}

\* patterns of pinned values of a face with n nodes: the real part, the
\* imaginary part or both, pinned at no node, at one node or at every node
PinPatterns(n) ==
  { nodes \X slots :
      nodes \in {{}} \cup { {l} : l \in 0 .. n - 1 } \cup { 0 .. n - 1 },
      slots \in { {0}, {1}, {0, 1} } }

\* nodal values of the n + 1 nodes of the bulk element: at most one of the
\* nodes 1 .. n holds another value than node 0
NodalFields(n) ==
  { v \in [0 .. n -> NodalValues] : Cardinality({ l \in 1 .. n : v[l] # v[0] }) <= 1 }

\* a call that takes no buffer or stream is handed these
NoBuffer == << >>

NoStream == [is_open |-> FALSE, text |-> << >>]

----------------------------------------------------------------------------
(* What the face element reads from FaceElement / FiniteElement / Node / Integral *)

\* nnode()
nnode == mesh.nnode

\* nodal_position(l, i)
nodal_position(l, i) ==
  IF i = 0 THEN mesh.geom.r0 + l * mesh.geom.dr
           ELSE mesh.geom.z0 + l * mesh.geom.dz

\* integral_pt()->nweight()
nweight == Len(mesh.integral_pt)

\* integral_pt()->weight(ipt)
weight(ipt) == mesh.integral_pt[ipt + 1].weight

\* integral_pt()->knot(ipt, 0): the local coordinate of integration point ipt
knot(ipt) == ipt

\* shape(s, psi): the integration points lie on the nodes, point s on node s mod nnode
shape(s) == [l \in 0 .. nnode - 1 |-> IF l = s % nnode THEN 1 ELSE 0]

\* J_eulerian(s)
J_eulerian(s) == mesh.integral_pt[s + 1].J

\* nodal_local_eqn(l, i): free values are numbered 0, 1, .. node by node,
\* a pinned value has the number -1
nodal_local_eqn(l, i) ==
  IF <<l, i>> \in mesh.pinned THEN -1
  ELSE Cardinality({ d \in Dofs(nnode) \ mesh.pinned :
                       d[1] < l \/ (d[1] = l /\ d[2] < i) })

\* nodal_value(l, i), of the face element and of the bulk element: the face's
\* node l is the bulk element's node l
nodal_value(l, i) == mesh.value[l][i]

\* bulk_elem_pt->nnode(): the nodes of the face and one node off the face
nnode_bulk == nnode + 1

\* dshape_eulerian(s_bulk, psi_bulk, dpsi_bulk_dx) of the bulk element: the
\* derivatives dpsi_bulk_dx(l, i) of the shape functions of a straight-sided
\* linear element, the same at every point (for three nodes those of the
\* triangle (0,0), (1,0), (0,1)); they sum to zero over the nodes
dpsi_bulk_dx(l, i) ==
  IF l = 0 THEN -1
  ELSE IF i = 0 THEN (IF l = 1 THEN 1 ELSE 0)
  ELSE (IF l = nnode_bulk - 1 THEN 1 ELSE 0)

\* outer_unit_normal(s, unit_normal)
outer_unit_normal(s) == [i \in 0 .. 1 |-> mesh.geom.normal[i + 1]]

\* number of entries of the caller's residual vector
ndof == 2 * nnode

Buffer(fill) == [e \in 0 .. ndof - 1 |-> fill]

Matrix(fill) == [e \in (0 .. ndof - 1) \X (0 .. ndof - 1) |-> fill]

----------------------------------------------------------------------------
(* PMLFourierDecomposedHelmholtzFluxElement *)

\* the functions behind the non-null PMLFourierDecomposedHelmholtzPrescribedFluxFctPt
\* values: 1 is the constant flux (3,-4), 2 depends on the position
CallFluxFct(fct_pt, x) ==
  IF fct_pt = 1 THEN Complex(3, -4)
  ELSE Complex(x[0] + x[1], x[1] - 2 * x[0])

\* what build_face_element(face_index, this) sets up in the object under construction
build_face_element(bulk_el_pt, face_index) ==
  [bound |-> TRUE, bulk_element_pt |-> bulk_el_pt, face_index |-> face_index]

\* shape_and_test(s, psi, test)
shape_and_test(s) ==
  LET psi == shape(s)
  IN  [psi |-> psi, test |-> [i \in 0 .. nnode - 1 |-> psi[i]], J |-> J_eulerian(s)]

get_flux_calls_null(el, x) == CallFluxFct(el.Flux_fct_pt, x)

\* get_flux(x, flux)
get_flux(el, x) ==
  IF el.Flux_fct_pt = 0 THEN Complex(0, 0)
  ELSE CallFluxFct(el.Flux_fct_pt, x)

\* interpolated_x[i] += nodal_position(l, i) * psif[l], l = from .. nnode-1
RECURSIVE InterpolatePosition(_, _, _)
InterpolatePosition(x, psif, l) ==
  IF l >= nnode THEN x
  ELSE InterpolatePosition(
         [i \in 0 .. 1 |-> x[i] + nodal_position(l, i) * psif[l]], psif, l + 1)

ResidualNodeStep_by_slot(el, res, l, flux, testf, r, W) ==
  LET res1 == [res EXCEPT ![2 * l + el.U_index.real] = @ - flux.real * testf[l] * r * W]
  IN  [res1 EXCEPT ![2 * l + el.U_index.imag] = @ - flux.imag * testf[l] * r * W]

ResidualNodeStep_no_r(el, res, l, flux, testf, r, W) ==
  LET local_eqn_real == nodal_local_eqn(l, el.U_index.real)
      res1 == IF local_eqn_real >= 0
              THEN [res EXCEPT ![local_eqn_real] = @ - flux.real * testf[l] * W]
              ELSE res
      local_eqn_imag == nodal_local_eqn(l, el.U_index.imag)
  IN  IF local_eqn_imag >= 0
      THEN [res1 EXCEPT ![local_eqn_imag] = @ - flux.imag * testf[l] * W]
      ELSE res1

ResidualNodeStep_imag_inside_real(el, res, l, flux, testf, r, W) ==
  LET local_eqn_real == nodal_local_eqn(l, el.U_index.real)
      local_eqn_imag == nodal_local_eqn(l, el.U_index.imag)
  IN  IF local_eqn_real >= 0
      THEN LET res1 == [res EXCEPT ![local_eqn_real] = @ - flux.real * testf[l] * r * W]
           IN  IF local_eqn_imag >= 0
               THEN [res1 EXCEPT ![local_eqn_imag] = @ - flux.imag * testf[l] * r * W]
               ELSE res1
      ELSE res

\* body of the loop over the test functions, for node l
ResidualNodeStep(el, res, l, flux, testf, r, W) ==
  LET local_eqn_real == nodal_local_eqn(l, el.U_index.real)
      res1 == IF local_eqn_real >= 0
              THEN [res EXCEPT ![local_eqn_real] = @ - flux.real * testf[l] * r * W]
              ELSE res
      local_eqn_imag == nodal_local_eqn(l, el.U_index.imag)
  IN  IF local_eqn_imag >= 0
      THEN [res1 EXCEPT ![local_eqn_imag] = @ - flux.imag * testf[l] * r * W]
      ELSE res1

\* loop over the test functions, l = from .. nnode-1
RECURSIVE ResidualNodeLoop(_, _, _, _, _, _, _)
ResidualNodeLoop(el, res, l, flux, testf, r, W) ==
  IF l >= nnode THEN res
  ELSE ResidualNodeLoop(el, ResidualNodeStep(el, res, l, flux, testf, r, W),
                        l + 1, flux, testf, r, W)

\* body of the loop over the integration points, for point ipt
ResidualIntPtStep(el, res, ipt) ==
  LET s == knot(ipt)
      w == weight(ipt)
      st == shape_and_test(s)
      W == w * st.J
      interpolated_x == InterpolatePosition([i \in 0 .. 1 |-> 0], st.psi, 0)
      r == interpolated_x[0]
      flux == get_flux(el, interpolated_x)
  IN  ResidualNodeLoop(el, res, 0, flux, st.test, r, W)

\* loop over the integration points, ipt = from .. n_intpt-1
RECURSIVE ResidualIntPtLoop(_, _, _)
ResidualIntPtLoop(el, res, ipt) ==
  IF ipt >= nweight THEN res
  ELSE ResidualIntPtLoop(el, ResidualIntPtStep(el, res, ipt), ipt + 1)

generic_residual_touches_jacobian(el, res, jac, flag) ==
  [residuals |-> ResidualIntPtLoop(el, res, 0),
   jacobian |-> IF flag = 1 THEN [e \in DOMAIN jac |-> jac[e] + nweight] ELSE jac]

\* fill_in_generic_residual_contribution_pml_fourier_decomposed_helmholtz_flux(
\*   residuals, jacobian, flag)
fill_in_generic_residual_contribution_pml_fourier_decomposed_helmholtz_flux(el, res, jac, flag) ==
  [residuals |-> ResidualIntPtLoop(el, res, 0), jacobian |-> jac]

----------------------------------------------------------------------------
(* PMLFourierDecomposedHelmholtzPowerMonitorElement *)

RECURSIVE GCD(_, _)
GCD(a, b) == IF b = 0 THEN a ELSE GCD(b, a % b)

Abs(a) == IF a < 0 THEN -a ELSE a

\* atan2(y, x): the angle is kept as the direction it names, the pair (y, x)
\* divided by its greatest common divisor; atan2(0, 0) is the angle of (0, 1)
atan2(y, x) ==
  IF y = 0 /\ x = 0 THEN <<0, 1>>
  ELSE LET g == GCD(Abs(y), Abs(x)) IN <<y \div g, x \div g>>

\* the line "ZONE\n"
ZoneLine == [line |-> "ZONE"]

\* the line x[0] << " " << x[1] << " " << theta << " " << integrand << "\n"
PointLine(x0, x1, theta, integrand) ==
  [line |-> "point", x0 |-> x0, x1 |-> x1, theta |-> theta, integrand |-> integrand]

\* a std::ofstream: whether it is open, and the lines of its file
Stream(is_open, text) == [is_open |-> is_open, text |-> text]

\* the std::ofstream objects a caller hands in
Streams == { Stream(FALSE, <<ZoneLine>>), Stream(TRUE, <<>>), Stream(TRUE, <<ZoneLine>>) }

CTimes(c, a) == Complex(c.real * a, c.imag * a)

CPlus(c, d) == Complex(c.real + d.real, c.imag + d.imag)

\* phi_value of bulk node l, read at the bulk element's own indices
BulkPhiValue(el, l) ==
  Complex(nodal_value(l, el.bulk_element_pt.u_index.real),
          nodal_value(l, el.bulk_element_pt.u_index.imag))

\* phi_value of face node l, read at the face element's stored indices
FacePhiValue(el, l) ==
  Complex(nodal_value(l, el.U_index.real), nodal_value(l, el.U_index.imag))

\* interpolated_dphidx[i] += phi_value * dpsi_bulk_dx(l, i), l = from .. nnode_bulk-1
RECURSIVE InterpolateGradient(_, _, _)
InterpolateGradient(el, dphidx, l) ==
  IF l >= nnode_bulk THEN dphidx
  ELSE InterpolateGradient(
         el,
         [i \in 0 .. 1 |-> CPlus(dphidx[i], CTimes(BulkPhiValue(el, l), dpsi_bulk_dx(l, i)))],
         l + 1)

\* interpolated_phi += phi_value * psi(l), l = from .. n_node_local-1
RECURSIVE InterpolatePhi(_, _, _, _)
InterpolatePhi(el, phi, psi, l) ==
  IF l >= nnode THEN phi
  ELSE InterpolatePhi(el, CPlus(phi, CTimes(FacePhiValue(el, l), psi[l])), psi, l + 1)

\* dphi_dn += interpolated_dphidx[i] * unit_normal[i], i = 0, 1
NormalDerivative(dphidx, unit_normal) ==
  CPlus(CTimes(dphidx[0], unit_normal[0]), CTimes(dphidx[1], unit_normal[1]))

PowerDensity_wrong_parts(phi, dphi_dn) ==
  phi.real * dphi_dn.real - phi.imag * dphi_dn.imag

\* double integrand = (interpolated_phi.real() * dphi_dn.imag() -
\*                     interpolated_phi.imag() * dphi_dn.real())
PowerDensity(phi, dphi_dn) ==
  phi.real * dphi_dn.imag - phi.imag * dphi_dn.real

\* what one pass of the loop over the integration points works out at point ipt
PowerPoint(el, ipt) ==
  LET s == knot(ipt)
      unit_normal == outer_unit_normal(s)
      psi == shape(s)
      dphidx == InterpolateGradient(el, [i \in 0 .. 1 |-> Complex(0, 0)], 0)
      phi == InterpolatePhi(el, Complex(0, 0), psi, 0)
      dphi_dn == NormalDerivative(dphidx, unit_normal)
      x == InterpolatePosition([i \in 0 .. 1 |-> 0], psi, 0)
  IN  [W |-> weight(ipt) * J_eulerian(s),
       phi |-> phi,
       dphi_dn |-> dphi_dn,
       integrand |-> PowerDensity(phi, dphi_dn),
       x |-> x,
       theta |-> atan2(x[0], x[1])]

PowerIntPtStep_only_if_open(el, acc, ipt) ==
  LET p == PowerPoint(el, ipt)
  IN  IF acc.outfile.is_open
      THEN [outfile |-> [acc.outfile EXCEPT !.text =
                           Append(@, PointLine(p.x[0], p.x[1], p.theta, p.integrand))],
            power |-> acc.power + p.x[0] * p.integrand * p.W]
      ELSE acc

\* body of the loop over the integration points, for point ipt; acc holds the
\* stream and the running value of power
PowerIntPtStep(el, acc, ipt) ==
  LET p == PowerPoint(el, ipt)
  IN  [outfile |-> IF acc.outfile.is_open
                   THEN [acc.outfile EXCEPT !.text =
                           Append(@, PointLine(p.x[0], p.x[1], p.theta, p.integrand))]
                   ELSE acc.outfile,
       power |-> acc.power + p.x[0] * p.integrand * p.W]

\* loop over the integration points, ipt = from .. n_intpt-1
RECURSIVE PowerIntPtLoop(_, _, _)
PowerIntPtLoop(el, acc, ipt) ==
  IF ipt >= nweight THEN acc
  ELSE PowerIntPtLoop(el, PowerIntPtStep(el, acc, ipt), ipt + 1)

WriteZone_when_points(out) ==
  IF out.is_open /\ nweight > 0 THEN [out EXCEPT !.text = Append(@, ZoneLine)] ELSE out

\* if (outfile.is_open()) outfile << "ZONE\n"
WriteZone(out) ==
  IF out.is_open THEN [out EXCEPT !.text = Append(@, ZoneLine)] ELSE out

global_power_contribution_keeps_sum(el, out) ==
  PowerIntPtLoop(el, [outfile |-> WriteZone(out), power |-> power], 0)

\* double global_power_contribution(std::ofstream& outfile): the stream after
\* the call and the value returned
global_power_contribution(el, out) ==
  PowerIntPtLoop(el, [outfile |-> WriteZone(out), power |-> 0], 0)

\* double global_power_contribution(): the value returned
global_power_contribution_no_file(el) ==
  global_power_contribution(el, NoStream).power

----------------------------------------------------------------------------
(* Constructors.  A constructor that throws leaves no object: the object     *)
(* under construction is destroyed while the exception propagates.  Each     *)
(* operator gives the exception and the object as it was when the            *)
(* constructor ended.                                                        *)

\* dynamic_cast<PMLFourierDecomposedHelmholtzEquations*>(bulk_el_pt): the null
\* pointer unless the bulk element inherits from the equations class
dynamic_cast(bulk_el_pt) == [null |-> ~bulk_el_pt.helmholtz, pointee |-> bulk_el_pt]

FluxElement_unchecked_cast(bulk_el_pt, face_index) ==
  LET built == build_face_element(bulk_el_pt, face_index)
  IN  [thrown |-> "none",
       object |-> [bound |-> built.bound,
                   bulk_element_pt |-> built.bulk_element_pt,
                   face_index |-> built.face_index,
                   Flux_fct_pt |-> 0,
                   U_index |-> Complex(0, 1)]]

\* PMLFourierDecomposedHelmholtzFluxElement(bulk_el_pt, face_index)
FluxElement(bulk_el_pt, face_index) ==
  LET built == build_face_element(bulk_el_pt, face_index)
      initialised == [bound |-> built.bound,
                      bulk_element_pt |-> built.bulk_element_pt,
                      face_index |-> built.face_index,
                      Flux_fct_pt |-> 0,
                      U_index |-> Complex(0, 1)]
      eqn_pt == dynamic_cast(bulk_el_pt)
  IN  IF eqn_pt.null
      THEN [thrown |-> "OomphLibError", object |-> initialised]
      ELSE [thrown |-> "none",
            object |-> [initialised EXCEPT !.U_index = eqn_pt.pointee.u_index]]

FluxElementDefault_no_throw ==
  [thrown |-> "none",
   object |-> [bound |-> FALSE, Flux_fct_pt |-> 0, U_index |-> Complex(0, 1)]]

\* PMLFourierDecomposedHelmholtzFluxElement(): the broken empty constructor
FluxElementDefault == [thrown |-> "OomphLibError", object |-> NoElement]

PowerMonitorElement_default_index(bulk_el_pt, face_index) ==
  LET built == build_face_element(bulk_el_pt, face_index)
      initialised == [bound |-> built.bound,
                      bulk_element_pt |-> built.bulk_element_pt,
                      face_index |-> built.face_index,
                      U_index |-> Complex(0, 1)]
  IN  [thrown |-> IF dynamic_cast(bulk_el_pt).null THEN "OomphLibError" ELSE "none",
       object |-> initialised]

\* PMLFourierDecomposedHelmholtzPowerMonitorElement(bulk_el_pt, face_index)
PowerMonitorElement(bulk_el_pt, face_index) ==
  LET built == build_face_element(bulk_el_pt, face_index)
      initialised == [bound |-> built.bound,
                      bulk_element_pt |-> built.bulk_element_pt,
                      face_index |-> built.face_index,
                      U_index |-> Complex(0, 1)]
      eqn_pt == dynamic_cast(bulk_el_pt)
  IN  IF eqn_pt.null
      THEN [thrown |-> "OomphLibError", object |-> initialised]
      ELSE [thrown |-> "none",
            object |-> [initialised EXCEPT !.U_index = eqn_pt.pointee.u_index]]

\* PMLFourierDecomposedHelmholtzPowerMonitorElement(): the broken empty constructor
PowerMonitorElementDefault == [thrown |-> "OomphLibError", object |-> NoElement]

\* the object a caller holds after a constructor ended with `made`
Constructed(made) == IF made.thrown = "none" THEN made.object ELSE NoElement

\* GeneralisedElement::Dummy_matrix
Dummy_matrix == Matrix(0)

\* fill_in_contribution_to_residuals(residuals)
fill_in_contribution_to_residuals(el, res) ==
  fill_in_generic_residual_contribution_pml_fourier_decomposed_helmholtz_flux(
    el, res, Dummy_matrix, 0).residuals

\* fill_in_contribution_to_jacobian(residuals, jacobian)
fill_in_contribution_to_jacobian(el, res, jac) ==
  fill_in_generic_residual_contribution_pml_fourier_decomposed_helmholtz_flux(
    el, res, jac, 1)

\* flux_fct_pt() = fct_pt
set_flux_fct_pt(el, fct_pt) == [el EXCEPT !.Flux_fct_pt = fct_pt]

----------------------------------------------------------------------------
(* Actions: one per operation a driver can call.  residuals, jacobian,       *)
(* outfile and power belong to the call: an operation that is not handed a   *)
(* buffer or a stream, or returns no value, leaves NoBuffer, NoStream, 0.    *)

Handed(res, jac, out) == [residuals |-> res, jacobian |-> jac, outfile |-> out]

NothingHanded ==
  /\ pre' = Handed(NoBuffer, NoBuffer, NoStream)
  /\ residuals' = NoBuffer
  /\ jacobian' = NoBuffer
  /\ outfile' = NoStream
  /\ power' = 0

ConstructFlux ==
  LET made == FluxElement(mesh.bulk, mesh.face_index)
  IN  /\ fluxEl = NoElement
      /\ fluxEl' = Constructed(made)
      /\ ctor' = made.object
      /\ thrown' = made.thrown
      /\ lastOp' = "FluxElement(bulk_el_pt, face_index)"
      /\ NothingHanded
      /\ UNCHANGED <<mesh, powerEl>>

DefaultConstructFlux ==
  /\ fluxEl = NoElement
  /\ fluxEl' = Constructed(FluxElementDefault)
  /\ ctor' = FluxElementDefault.object
  /\ thrown' = FluxElementDefault.thrown
  /\ lastOp' = "FluxElement()"
  /\ NothingHanded
  /\ UNCHANGED <<mesh, powerEl>>

SetFluxFunction ==
  \E fct_pt \in FluxFctPts :
    /\ fluxEl.bound
    /\ fluxEl' = set_flux_fct_pt(fluxEl, fct_pt)
    /\ thrown' = "none"
    /\ lastOp' = "flux_fct_pt()"
    /\ NothingHanded
    /\ UNCHANGED <<mesh, powerEl, ctor>>

ComputeResidualContribution_clears_flux ==
  \E fill \in BufferFill :
    /\ fluxEl.bound
    /\ pre' = Handed(Buffer(fill), NoBuffer, NoStream)
    /\ residuals' = fill_in_contribution_to_residuals(fluxEl, Buffer(fill))
    /\ jacobian' = NoBuffer
    /\ outfile' = NoStream
    /\ power' = 0
    /\ thrown' = "none"
    /\ lastOp' = "fill_in_contribution_to_residuals"
    /\ fluxEl' = set_flux_fct_pt(fluxEl, 0)
    /\ UNCHANGED <<mesh, powerEl, ctor>>

\* fill_in_contribution_to_residuals(residuals) called by a driver
ComputeResidualContribution ==
  \E fill \in BufferFill :
    /\ fluxEl.bound
    /\ pre' = Handed(Buffer(fill), NoBuffer, NoStream)
    /\ residuals' = fill_in_contribution_to_residuals(fluxEl, Buffer(fill))
    /\ jacobian' = NoBuffer
    /\ outfile' = NoStream
    /\ power' = 0
    /\ thrown' = "none"
    /\ lastOp' = "fill_in_contribution_to_residuals"
    /\ UNCHANGED <<mesh, fluxEl, powerEl, ctor>>

ComputeJacobianContribution ==
  \E fill \in BufferFill :
    LET out == fill_in_contribution_to_jacobian(fluxEl, Buffer(fill), Matrix(5 - fill))
    IN  /\ fluxEl.bound
        /\ pre' = Handed(Buffer(fill), Matrix(5 - fill), NoStream)
        /\ residuals' = out.residuals
        /\ jacobian' = out.jacobian
        /\ outfile' = NoStream
        /\ power' = 0
        /\ thrown' = "none"
        /\ lastOp' = "fill_in_contribution_to_jacobian"
        /\ UNCHANGED <<mesh, fluxEl, powerEl, ctor>>

ConstructPower ==
  LET made == PowerMonitorElement(mesh.bulk, mesh.face_index)
  IN  /\ powerEl = NoElement
      /\ powerEl' = Constructed(made)
      /\ ctor' = made.object
      /\ thrown' = made.thrown
      /\ lastOp' = "PowerMonitorElement(bulk_el_pt, face_index)"
      /\ NothingHanded
      /\ UNCHANGED <<mesh, fluxEl>>

DefaultConstructPower ==
  /\ powerEl = NoElement
  /\ powerEl' = Constructed(PowerMonitorElementDefault)
  /\ ctor' = PowerMonitorElementDefault.object
  /\ thrown' = PowerMonitorElementDefault.thrown
  /\ lastOp' = "PowerMonitorElement()"
  /\ NothingHanded
  /\ UNCHANGED <<mesh, fluxEl>>

ComputeGlobalPowerContribution ==
  /\ powerEl.bound
  /\ pre' = Handed(NoBuffer, NoBuffer, NoStream)
  /\ residuals' = NoBuffer
  /\ jacobian' = NoBuffer
  /\ outfile' = NoStream
  /\ power' = global_power_contribution_no_file(powerEl)
  /\ thrown' = "none"
  /\ lastOp' = "global_power_contribution()"
  /\ UNCHANGED <<mesh, fluxEl, powerEl, ctor>>

ComputeGlobalPowerContributionTo ==
  \E out \in Streams :
    LET done == global_power_contribution(powerEl, out)
    IN  /\ powerEl.bound
        /\ pre' = Handed(NoBuffer, NoBuffer, out)
        /\ residuals' = NoBuffer
        /\ jacobian' = NoBuffer
        /\ outfile' = done.outfile
        /\ power' = done.power
        /\ thrown' = "none"
        /\ lastOp' = "global_power_contribution(outfile)"
        /\ UNCHANGED <<mesh, fluxEl, powerEl, ctor>>

----------------------------------------------------------------------------
(* Specifications *)

\* the nodal values stored at the two slots the bulk element names
Stored(bulk, c) ==
  [i \in Slots |-> IF i = bulk.u_index.real THEN c.real ELSE c.imag]

\* a boundary face of the mesh: the bulk element and the index of its face,
\* the nodes of the face, its integration scheme and the nodal values
Mesh(bulk, face_index, n, geom, pinned, scheme, value) ==
  [bulk |-> bulk, face_index |-> face_index, nnode |-> n, geom |-> geom,
   pinned |-> pinned, integral_pt |-> scheme, value |-> value]

\* meshes for the lifecycle of both elements: any bulk element and face index,
\* nothing pinned, integration schemes of at most one point
Meshes ==
  { Mesh(bulk, face_index, n, RadialFace, {}, scheme,
         [l \in 0 .. n |-> Stored(bulk, Complex(1, 2))]) :
      bulk \in BulkElements, face_index \in FaceIndices, n \in 1 .. MaxNode,
      scheme \in { q \in IntegrationSchemes : Len(q) <= 1 } }

\* meshes for the flux element: every geometry, pinning pattern and integration scheme
FluxMeshes ==
  UNION { { Mesh(bulk, 2, n, geom, pinned, scheme,
                 [l \in 0 .. n |-> Stored(bulk, Complex(1, 2))]) :
              bulk \in HelmholtzBulks, geom \in Geometries,
              pinned \in PinPatterns(n), scheme \in IntegrationSchemes } :
          n \in 1 .. MaxNode }

\* meshes for the power monitor: every geometry, nodal field and integration scheme
PowerMeshes ==
  UNION { { Mesh(bulk, 2, n, geom, {}, scheme,
                 [l \in 0 .. n |-> Stored(bulk, value[l])]) :
              bulk \in HelmholtzBulks, geom \in Geometries,
              scheme \in IntegrationSchemes,
              value \in NodalFields(n) } :
          n \in 1 .. MaxNode }

InitOn(m) ==
  /\ mesh = m
  /\ fluxEl = NoElement
  /\ powerEl = NoElement
  /\ thrown = "none"
  /\ residuals = NoBuffer
  /\ jacobian = NoBuffer
  /\ outfile = NoStream
  /\ power = 0
  /\ lastOp = "none"
  /\ pre = Handed(NoBuffer, NoBuffer, NoStream)
  /\ ctor = NoElement

Init == \E m \in Meshes : InitOn(m)

InitFlux == \E m \in FluxMeshes : InitOn(m)

InitPower == \E m \in PowerMeshes : InitOn(m)

NextFlux ==
  \/ ConstructFlux
  \/ DefaultConstructFlux
  \/ SetFluxFunction
  \/ ComputeResidualContribution
  \/ ComputeJacobianContribution

NextPower ==
  \/ ConstructPower
  \/ DefaultConstructPower
  \/ ComputeGlobalPowerContribution
  \/ ComputeGlobalPowerContributionTo

Next == NextFlux \/ NextPower

Spec == Init /\ [][Next]_vars

SpecFlux == InitFlux /\ [][NextFlux]_vars

SpecPower == InitPower /\ [][NextPower]_vars

----------------------------------------------------------------------------
(* Sums used to state the properties *)

RECURSIVE SumFn(_)
SumFn(f) ==
  IF DOMAIN f = {} THEN 0
  ELSE LET k == CHOOSE j \in DOMAIN f : TRUE
       IN  f[k] + SumFn([j \in DOMAIN f \ {k} |-> f[j]])

IntPts == 0 .. nweight - 1

Nodes == 0 .. nnode - 1

ResidualOps == {"fill_in_contribution_to_residuals", "fill_in_contribution_to_jacobian"}

PowerOps == {"global_power_contribution()", "global_power_contribution(outfile)"}

\* the position x_q interpolated from the nodal positions with the shape functions
PositionAt(q) ==
  [i \in 0 .. 1 |-> SumFn([l \in Nodes |-> nodal_position(l, i) * shape(knot(q))[l]])]

\* the flux the bound function prescribes at x_q (zero without a function)
FluxAt(q) ==
  IF fluxEl.Flux_fct_pt = 0 THEN Complex(0, 0)
  ELSE CallFluxFct(fluxEl.Flux_fct_pt, PositionAt(q))

\* test_l(q) * r_q * w_q * J_q
TestWeight(q, l) ==
  shape(knot(q))[l] * PositionAt(q)[0] * weight(q) * J_eulerian(knot(q))

\* the value entry e must have after the call: its value before minus the sums
ExpectedResidual(e) ==
  pre.residuals[e]
    - SumFn([ql \in { ql \in IntPts \X Nodes :
                        nodal_local_eqn(ql[2], fluxEl.U_index.real) = e } |->
               FluxAt(ql[1]).real * TestWeight(ql[1], ql[2])])
    - SumFn([ql \in { ql \in IntPts \X Nodes :
                        nodal_local_eqn(ql[2], fluxEl.U_index.imag) = e } |->
               FluxAt(ql[1]).imag * TestWeight(ql[1], ql[2])])

\* the end-to-end scenario: one point (w = 1, J = 1), one node (test = 1) at
\* r = 2, the constant flux (3,-4), equation numbers 0 and 1
FluxScenario ==
  /\ nnode = 1
  /\ mesh.geom = RadialFace
  /\ mesh.integral_pt = << [weight |-> 1, J |-> 1] >>
  /\ mesh.pinned = {}
  /\ fluxEl.bound
  /\ fluxEl.Flux_fct_pt = 1
  /\ nodal_local_eqn(0, fluxEl.U_index.real) = 0
  /\ nodal_local_eqn(0, fluxEl.U_index.imag) = 1

----------------------------------------------------------------------------
(* C1: after fill_in_contribution_to_residuals every entry e of the residual *)
(* vector holds its value before the call minus the sum, over the            *)
(* integration points q and the nodes l whose real-part equation number is   *)
(* e, of flux(x_q).real * test_l(q) * r_q * w_q * J_q, and minus the same    *)
(* sum with flux(x_q).imag over the nodes whose imaginary-part equation      *)
(* number is e; in the end-to-end scenario entry 0 changes by -6 and entry 1 *)
(* by +8.                                                                    *)
C1_ResidualContribution ==
  lastOp = "fill_in_contribution_to_residuals" =>
    /\ DOMAIN residuals = 0 .. ndof - 1
    /\ \A e \in 0 .. ndof - 1 : residuals[e] = ExpectedResidual(e)
    /\ FluxScenario =>
         /\ residuals[0] = pre.residuals[0] - 6
         /\ residuals[1] = pre.residuals[1] + 8

C1_Witness ==
  /\ lastOp = "fill_in_contribution_to_residuals"
  /\ FluxScenario
  /\ pre.residuals[0] = 5
  /\ residuals[0] = -1
  /\ residuals[1] = 13

(* C2: with the null flux function bound to the element (after construction *)
(* or after flux_fct_pt() was set back to null) the residual vector is the   *)
(* same after fill_in_contribution_to_residuals / _to_jacobian as before:    *)
(* nothing is contributed to any entry, real or imaginary.                   *)
C2_NullFluxContributesZero ==
  (lastOp \in ResidualOps /\ fluxEl.Flux_fct_pt = 0) => residuals = pre.residuals

\* a call with the null function where a non-null function would contribute
C2_Witness ==
  /\ lastOp = "fill_in_contribution_to_residuals"
  /\ fluxEl.Flux_fct_pt = 0
  /\ mesh.pinned = {}
  /\ nweight = 2
  /\ \A q \in IntPts : weight(q) * J_eulerian(knot(q)) # 0
  /\ pre.residuals = Buffer(5)
  /\ residuals = Buffer(5)

(* C3: pinned values receive no residual contribution: an entry of the      *)
(* residual vector that is the equation number of no free value of the face  *)
(* is the same after the call as before, and with every value of the face    *)
(* pinned the whole vector is.                                               *)
C3_PinnedNeverWritten ==
  lastOp \in ResidualOps =>
    /\ \A e \in 0 .. ndof - 1 :
         (\A l \in Nodes :
            /\ nodal_local_eqn(l, fluxEl.U_index.real) # e
            /\ nodal_local_eqn(l, fluxEl.U_index.imag) # e)
         => residuals[e] = pre.residuals[e]
    /\ (\A d \in Dofs(nnode) : nodal_local_eqn(d[1], d[2]) < 0)
         => residuals = pre.residuals

\* every value pinned, a non-null flux and points that would contribute
C3_Witness ==
  /\ lastOp = "fill_in_contribution_to_residuals"
  /\ mesh.pinned = Dofs(nnode)
  /\ nnode = 2
  /\ fluxEl.Flux_fct_pt = 1
  /\ nweight = 2
  /\ \A q \in IntPts : weight(q) * J_eulerian(knot(q)) # 0
  /\ residuals = pre.residuals

(* C4: fill_in_contribution_to_jacobian leaves every entry of the Jacobian  *)
(* matrix as the caller handed it in and gives the residual vector the       *)
(* entries fill_in_contribution_to_residuals gives it.                       *)
C4_JacobianUntouched ==
  lastOp = "fill_in_contribution_to_jacobian" =>
    /\ jacobian = pre.jacobian
    /\ \A e \in 0 .. ndof - 1 : residuals[e] = ExpectedResidual(e)
    /\ residuals = fill_in_contribution_to_residuals(fluxEl, pre.residuals)

\* a call that changes the residual vector, on a Jacobian matrix of non-zero entries
C4_Witness ==
  /\ lastOp = "fill_in_contribution_to_jacobian"
  /\ residuals # pre.residuals
  /\ pre.jacobian = Matrix(5)
  /\ jacobian = Matrix(5)
  /\ fluxEl.Flux_fct_pt = 2

----------------------------------------------------------------------------
(* The quantities of the power integral, as sums *)

BulkNodes == 0 .. nnode_bulk - 1

\* the field interpolated from the face element's own nodes and shape functions
FieldAt(q) ==
  Complex(
    SumFn([l \in Nodes |-> nodal_value(l, powerEl.U_index.real) * shape(knot(q))[l]]),
    SumFn([l \in Nodes |-> nodal_value(l, powerEl.U_index.imag) * shape(knot(q))[l]]))

\* component i of the gradient interpolated in the bulk element
GradientAt(q, i) ==
  Complex(
    SumFn([l \in BulkNodes |->
             nodal_value(l, powerEl.bulk_element_pt.u_index.real) * dpsi_bulk_dx(l, i)]),
    SumFn([l \in BulkNodes |->
             nodal_value(l, powerEl.bulk_element_pt.u_index.imag) * dpsi_bulk_dx(l, i)]))

\* the gradient projected on the outward unit normal
NormalDerivativeAt(q) ==
  Complex(
    SumFn([i \in 0 .. 1 |-> GradientAt(q, i).real * outer_unit_normal(knot(q))[i]]),
    SumFn([i \in 0 .. 1 |-> GradientAt(q, i).imag * outer_unit_normal(knot(q))[i]]))

\* Re(field) * Im(dn) - Im(field) * Re(dn)
IntegrandAt(q) ==
  FieldAt(q).real * NormalDerivativeAt(q).imag
    - FieldAt(q).imag * NormalDerivativeAt(q).real

\* the sum over the points of x0 * integrand * w * J (the coefficient of Pi)
ExpectedPower ==
  SumFn([q \in IntPts |->
           PositionAt(q)[0] * IntegrandAt(q) * weight(q) * J_eulerian(knot(q))])

\* the end-to-end scenario: one point (w = 1, J = 1) at x0 = 1, field (1,0),
\* normal derivative (0,2)
PowerScenario ==
  /\ powerEl.bound
  /\ mesh.integral_pt = << [weight |-> 1, J |-> 1] >>
  /\ PositionAt(0)[0] = 1
  /\ FieldAt(0) = Complex(1, 0)
  /\ NormalDerivativeAt(0) = Complex(0, 2)

\* the field and the normal derivative have zero imaginary part at point q
RealAt(q) == FieldAt(q).imag = 0 /\ NormalDerivativeAt(q).imag = 0

----------------------------------------------------------------------------
C5_Sum ==
  lastOp \in PowerOps =>
    /\ power = ExpectedPower
    /\ PowerScenario => (IntegrandAt(0) = 2 /\ power = 2)

C5_Repeat == (lastOp \in PowerOps /\ lastOp' \in PowerOps) => power' = power

(* C5: global_power_contribution returns the sum over the integration       *)
(* points of Pi * x0 * integrand * w * J, with the integrand                 *)
(* Re(field)*Im(dn) - Im(field)*Re(dn), the field interpolated on the face   *)
(* and dn the bulk gradient projected on the normal; the sum starts from     *)
(* zero at every call, so a call directly after another returns the same     *)
(* value; in the end-to-end scenario the integrand is 2 and the value 2 Pi.  *)
C5_PowerSum == [] C5_Sum /\ [][C5_Repeat]_vars

C5_Witness ==
  /\ lastOp \in PowerOps
  /\ PowerScenario
  /\ power = 2

(* C6: called without a file, or with a stream that is not open,            *)
(* global_power_contribution returns the same value and writes nothing (no   *)
(* ZONE line, no record); called with an open stream it returns that value   *)
(* too.                                                                      *)
C6_NoFileLikeClosedFile ==
  /\ lastOp = "global_power_contribution()" => outfile = NoStream
  /\ lastOp = "global_power_contribution(outfile)" =>
       /\ power = global_power_contribution_no_file(powerEl)
       /\ ~pre.outfile.is_open => outfile = pre.outfile

\* calls with a closed stream that holds earlier lines, returning a non-zero value
C6_Witness ==
  /\ lastOp = "global_power_contribution(outfile)"
  /\ ~pre.outfile.is_open
  /\ pre.outfile.text # << >>
  /\ nweight = 2
  /\ power # 0
  /\ power = global_power_contribution_no_file(powerEl)

(* C7: at an integration point where the field and the normal derivative    *)
(* have zero imaginary part the power integrand is zero, and when that       *)
(* holds at every point the value returned is zero.                          *)
C7_RealFieldNoPower ==
  powerEl.bound =>
    /\ \A q \in IntPts : RealAt(q) => PowerPoint(powerEl, q).integrand = 0
    /\ (lastOp \in PowerOps /\ \A q \in IntPts : RealAt(q)) => power = 0

\* a real field with a non-zero normal derivative, at points of non-zero weight
C7_Witness ==
  /\ lastOp \in PowerOps
  /\ nweight = 2
  /\ \A q \in IntPts :
       /\ RealAt(q)
       /\ FieldAt(q).real # 0
       /\ NormalDerivativeAt(q).real # 0
       /\ weight(q) * J_eulerian(knot(q)) # 0
  /\ power = 0

----------------------------------------------------------------------------
BoundConstructors ==
  {"FluxElement(bulk_el_pt, face_index)", "PowerMonitorElement(bulk_el_pt, face_index)"}

\* the element the last constructor call was to produce
LastConstructed ==
  IF lastOp \in {"FluxElement(bulk_el_pt, face_index)", "FluxElement()"}
  THEN fluxEl ELSE powerEl

(* C8 as stated: constructing either element on a bulk element that does    *)
(* not inherit from PMLFourierDecomposedHelmholtzEquations throws, no        *)
(* element is produced, and when the error is raised nothing has been built  *)
(* on or attached to the bulk element's face (no step of the binding took    *)
(* effect before the check of the cast).                                     *)
C8_NothingBuiltBeforeCheck ==
  (lastOp \in BoundConstructors /\ ~mesh.bulk.helmholtz) =>
    /\ thrown = "OomphLibError"
    /\ LastConstructed = NoElement
    /\ ~ctor.bound

(* C8 as amended: constructing either element on a bulk element that does   *)
(* not inherit from PMLFourierDecomposedHelmholtzEquations throws and the    *)
(* caller is left with no element; build_face_element has already attached   *)
(* the object under construction to the bulk element and face index when     *)
(* the error is raised, and that object is discarded with the exception.     *)
C8_ConstructionAborts ==
  (lastOp \in BoundConstructors /\ ~mesh.bulk.helmholtz) =>
    /\ thrown = "OomphLibError"
    /\ LastConstructed = NoElement
    /\ ctor.bound
    /\ ctor.bulk_element_pt = mesh.bulk
    /\ ctor.face_index = mesh.face_index

C8_Witness ==
  /\ lastOp = "FluxElement(bulk_el_pt, face_index)"
  /\ mesh.bulk = OtherBulk
  /\ thrown = "OomphLibError"
  /\ fluxEl = NoElement
  /\ ctor.bound

(* C9: a zero or negative Jacobian of the mapping at an integration point   *)
(* makes fill_in_contribution_to_residuals / _to_jacobian and                *)
(* global_power_contribution fail, and the failed call has contributed       *)
(* nothing to the residual vector or to the power.                           *)
C9_DegenerateJacobianReported ==
  (lastOp \in ResidualOps \cup PowerOps /\ \E q \in IntPts : J_eulerian(knot(q)) <= 0) =>
    /\ thrown # "none"
    /\ residuals = pre.residuals
    /\ power = 0

C10_State ==
  /\ lastOp = "FluxElement()" => (thrown = "OomphLibError" /\ fluxEl = NoElement)
  /\ lastOp = "PowerMonitorElement()" => (thrown = "OomphLibError" /\ powerEl = NoElement)
  /\ fluxEl # NoElement =>
       /\ fluxEl.bound
       /\ fluxEl.bulk_element_pt = mesh.bulk
       /\ fluxEl.face_index = mesh.face_index
  /\ powerEl # NoElement =>
       /\ powerEl.bound
       /\ powerEl.bulk_element_pt = mesh.bulk
       /\ powerEl.face_index = mesh.face_index

C10_Step ==
  /\ fluxEl.bound =>
       /\ fluxEl'.bound
       /\ fluxEl'.bulk_element_pt = fluxEl.bulk_element_pt
       /\ fluxEl'.face_index = fluxEl.face_index
  /\ powerEl.bound =>
       /\ powerEl'.bound
       /\ powerEl'.bulk_element_pt = powerEl.bulk_element_pt
       /\ powerEl'.face_index = powerEl.face_index

(* C10: the empty constructor of either element always throws and leaves no *)
(* element, so every element that exists is bound; a bound element stays     *)
(* bound to the same bulk element and face index through every call of       *)
(* flux_fct_pt(), fill_in_contribution_to_residuals / _to_jacobian and       *)
(* global_power_contribution.                                                *)
C10_Lifecycle == [] C10_State /\ [][C10_Step]_vars

\* the empty constructor of the power monitor has just thrown, while the flux
\* element is bound and holds a flux function
C10_Witness ==
  /\ lastOp = "PowerMonitorElement()"
  /\ thrown = "OomphLibError"
  /\ powerEl = NoElement
  /\ fluxEl.bound
  /\ fluxEl.Flux_fct_pt = 2

----------------------------------------------------------------------------
\* the line global_power_contribution writes for integration point q
RecordAt(q) ==
  PointLine(PositionAt(q)[0], PositionAt(q)[1],
            atan2(PositionAt(q)[0], PositionAt(q)[1]), IntegrandAt(q))

(* C11: global_power_contribution called with an open stream appends to the *)
(* lines the stream already holds exactly one ZONE line followed by one      *)
(* line (x0, x1, theta = atan2(x0, x1), integrand) per integration point,    *)
(* in the order of the points; the ZONE line is written once per call, also  *)
(* for a scheme without points, and the earlier lines stay as they were.     *)
C11_OpenStreamOutput ==
  (lastOp = "global_power_contribution(outfile)" /\ pre.outfile.is_open) =>
    /\ outfile.is_open
    /\ Len(outfile.text) = Len(pre.outfile.text) + 1 + nweight
    /\ SubSeq(outfile.text, 1, Len(pre.outfile.text)) = pre.outfile.text
    /\ outfile.text[Len(pre.outfile.text) + 1] = ZoneLine
    /\ \A q \in IntPts : outfile.text[Len(pre.outfile.text) + 2 + q] = RecordAt(q)

\* a call on two points at different positions with an open stream that holds
\* an earlier ZONE line
C11_Witness ==
  /\ lastOp = "global_power_contribution(outfile)"
  /\ pre.outfile = Stream(TRUE, <<ZoneLine>>)
  /\ nweight = 2
  /\ nnode = 2
  /\ Len(outfile.text) = 4
  /\ outfile.text[3] # outfile.text[4]
  /\ outfile.text[3].integrand # 0

\* a call on a scheme without points with an open stream: the ZONE line alone
C11_WitnessNoPoints ==
  /\ lastOp = "global_power_contribution(outfile)"
  /\ pre.outfile = Stream(TRUE, <<>>)
  /\ nweight = 0
  /\ outfile.text = <<ZoneLine>>

----------------------------------------------------------------------------
C12_State ==
  /\ fluxEl.bound => fluxEl.U_index = fluxEl.bulk_element_pt.u_index
  /\ powerEl.bound =>
       /\ powerEl.U_index = powerEl.bulk_element_pt.u_index
       /\ \A l \in Nodes : FacePhiValue(powerEl, l) = BulkPhiValue(powerEl, l)

C12_Step ==
  /\ fluxEl.bound => fluxEl'.U_index = fluxEl.U_index
  /\ powerEl.bound => powerEl'.U_index = powerEl.U_index

(* C12: an element whose constructor returned holds in                      *)
(* U_index_pml_fourier_decomposed_helmholtz the index pair its bulk          *)
(* element reports, and no later call (flux_fct_pt(),                        *)
(* fill_in_contribution_to_residuals / _to_jacobian,                         *)
(* global_power_contribution) changes it; so the power monitor reads the     *)
(* nodal values of the face at the indices at which it reads those of the    *)
(* bulk element for the gradient.                                            *)
C12_IndexFromBulk == [] C12_State /\ [][C12_Step]_vars

\* both elements on a bulk element that stores the imaginary part first, after
\* a flux function was set and the power was computed
C12_Witness ==
  /\ lastOp \in PowerOps
  /\ mesh.bulk = HelmholtzBulk(1, 0)
  /\ powerEl.bound
  /\ powerEl.U_index = Complex(1, 0)
  /\ fluxEl.bound
  /\ fluxEl.Flux_fct_pt = 2
  /\ fluxEl.U_index = Complex(1, 0)

----------------------------------------------------------------------------
C13_Step ==
  lastOp' \in ResidualOps \cup PowerOps =>
    /\ fluxEl' = fluxEl
    /\ powerEl' = powerEl
    /\ mesh'.value = mesh.value
    /\ mesh'.geom = mesh.geom
    /\ mesh' = mesh
    /\ lastOp' = "fill_in_contribution_to_jacobian" => jacobian' = pre'.jacobian

(* C13: fill_in_contribution_to_residuals, fill_in_contribution_to_jacobian *)
(* and global_power_contribution change only the residual vector and the     *)
(* stream the caller handed in: Flux_fct_pt, the stored index pair, the bulk *)
(* element and face index of both elements, and the nodal values and nodal   *)
(* positions of the mesh are after the call what they were before it.        *)
C13_CallsChangeOnlyArguments == [][C13_Step]_vars

\* a residual call that changed the caller's vector with a flux function set,
\* while both elements exist
C13_Witness ==
  /\ lastOp \in ResidualOps
  /\ residuals # pre.residuals
  /\ fluxEl.bound
  /\ fluxEl.Flux_fct_pt = 2
  /\ fluxEl.U_index = Complex(1, 0)
  /\ powerEl.bound

----------------------------------------------------------------------------
\* the equation numbers of the two channels of node l
EqnReal(l) == nodal_local_eqn(l, fluxEl.U_index.real)

EqnImag(l) == nodal_local_eqn(l, fluxEl.U_index.imag)

\* what the real and the imaginary channel of node l receive over all points
RealContribution(l) == SumFn([q \in IntPts |-> FluxAt(q).real * TestWeight(q, l)])

ImagContribution(l) == SumFn([q \in IntPts |-> FluxAt(q).imag * TestWeight(q, l)])

\* the entry of channel eqn after the node step at point q, node l, with the
\* flux component of the other channel replaced
StepEntry(q, l, eqn, flux) ==
  ResidualNodeStep(fluxEl, pre.residuals, l, flux, shape(knot(q)),
                   PositionAt(q)[0], weight(q) * J_eulerian(knot(q)))[eqn]

OtherComponents == {7}

(* C14: the two channels of a node are tested and updated separately: a     *)
(* node whose real-part equation number is negative and whose imaginary-part *)
(* equation number is not receives the whole imaginary contribution, and     *)
(* the other way round; what a channel receives is the sum over the points   *)
(* of its own flux component times test * r * w * J whatever the equation    *)
(* number of the other channel, and the entry a node step writes for a       *)
(* channel is the same for every flux component of the other channel.        *)
C14_ChannelsIndependent ==
  lastOp \in ResidualOps =>
    \A l \in Nodes :
      LET eqn_real == EqnReal(l)
          eqn_imag == EqnImag(l)
      IN  /\ (eqn_real < 0 /\ eqn_imag >= 0) =>
               residuals[eqn_imag] = pre.residuals[eqn_imag] - ImagContribution(l)
          /\ (eqn_imag < 0 /\ eqn_real >= 0) =>
               residuals[eqn_real] = pre.residuals[eqn_real] - RealContribution(l)
          /\ (eqn_real >= 0 /\ eqn_imag >= 0) =>
               /\ residuals[eqn_real] = pre.residuals[eqn_real] - RealContribution(l)
               /\ residuals[eqn_imag] = pre.residuals[eqn_imag] - ImagContribution(l)
          /\ \A q \in IntPts :
               LET flux == FluxAt(q)
               IN  \A other \in OtherComponents :
                     /\ eqn_real >= 0 =>
                          StepEntry(q, l, eqn_real, Complex(flux.real, other))
                            = StepEntry(q, l, eqn_real, flux)
                     /\ eqn_imag >= 0 =>
                          StepEntry(q, l, eqn_imag, Complex(other, flux.imag))
                            = StepEntry(q, l, eqn_imag, flux)

\* node 0 has its real part pinned and its imaginary part free, and the call
\* changed the entry of the imaginary part
C14_Witness ==
  /\ lastOp = "fill_in_contribution_to_residuals"
  /\ nnode = 2
  /\ mesh.pinned = {<<0, fluxEl.U_index.real>>}
  /\ fluxEl.Flux_fct_pt = 1
  /\ nweight = 2
  /\ EqnReal(0) < 0
  /\ EqnImag(0) >= 0
  /\ ImagContribution(0) # 0
  /\ residuals[EqnImag(0)] = pre.residuals[EqnImag(0)] - ImagContribution(0)

====
